---- MODULE Spec2Model ----
(***************************************************************************)
(* A model of the FastAPI-docs RAG pipeline: the ingestion script          *)
(* (indexer.py), the retrieval tool (retriever.py), the chat UI and its    *)
(* source parser (app.py) and the RAGAS evaluation wrapper (evaluation.py).*)
(*                                                                         *)
(* Python strings are sequences of one-character strings.  A similarity    *)
(* score is an integer number of thousandths; the scores drawn are those   *)
(* whose decimal value decides the rounding of the binary float as well    *)
(* (no last digit 5 unless the value is a multiple of 1/8, which a float   *)
(* holds exactly).                                                         *)
(***************************************************************************)
EXTENDS Integers, Sequences, FiniteSets, TLC

VARIABLES
    store,          \* the remote index: record id -> [values, metadata]
    embedLog,       \* the embedding requests the remote service has received
    docs,           \* the pages PyPDFLoader reads from the PDF on disk
    pdf,            \* the chunks load_and_split_pdf yields for the PDF on disk
    ipc,            \* the ingestion script: "start", "prompt", "indexing",
                    \* "done", "cancelled", "raised"
    chunks,         \* main's chunks
    i,              \* index_documents' loop variable
    confirm,        \* what the operator typed at the prompt
    stdout,         \* the progress and success lines index_documents printed
    outcome,        \* how index_documents ended
    run,            \* history of the current run of the script
    snapshots,      \* history: the index after each completed index_documents
    rpc,            \* retrieve_context / UI: "idle", "returned", "raised", "parsed"
    requested_k,    \* the k the caller of retrieve_context passed, 0 if none
    query_top_k,    \* the top_k retrieve_context's request to the index
                    \* carried, 0 if no request was sent
    query_embedding,\* the vector search_documents sent to the index
    matches,        \* what index.query returned to the last retrieve_context call
    output,         \* the string retrieve_context returned
    sources,        \* what parse_sources_from_tool_output made of it
    epc,            \* evaluate_response: "idle", "returned", "raised"
    failed,         \* history: the library call of evaluate_response that raised
    scores,         \* the mapping evaluate_response returned
    messages,       \* st.session_state.messages
    invoked,        \* history: the positions in messages of the user messages
                    \* agent.stream was called for
    shown           \* the st.error box of the current script run, "none" if none

remoteVars == <<store, embedLog>>
indexerVars == <<pdf, ipc, chunks, i, confirm, stdout, outcome, run, snapshots>>
retrieverVars == <<rpc, requested_k, query_top_k, query_embedding, matches, output, sources>>
evaluatorVars == <<epc, failed, scores>>
splitterVars == <<docs>>
chatVars == <<messages, invoked, shown>>
vars == <<remoteVars, indexerVars, retrieverVars, evaluatorVars, splitterVars, chatVars>>

----------------------------------------------------------------------------
(* Python string primitives, on sequences of characters.                   *)

NL == "\n"

Min(S) == CHOOSE m \in S : \A n \in S : m <= n

Abs(n) == IF n < 0 THEN -n ELSE n

\* s.find(p, from): the least index >= from at which p occurs in s, 0 if none
Find(s, p, from) ==
    LET hits == {k \in from .. (Len(s) - Len(p) + 1) :
                    SubSeq(s, k, k + Len(p) - 1) = p}
    IN  IF hits = {} THEN 0 ELSE Min(hits)

\* p in s
Contains(s, p) == Find(s, p, 1) # 0

\* s.split(sep): left to right, non-overlapping; always at least one segment
RECURSIVE Split(_, _)
Split(s, sep) ==
    LET at == Find(s, sep, 1)
    IN  IF at = 0 THEN <<s>>
        ELSE <<SubSeq(s, 1, at - 1)>> \o Split(SubSeq(s, at + Len(sep), Len(s)), sep)

\* s.split(sep, 1)
SplitOnce(s, sep) ==
    LET at == Find(s, sep, 1)
    IN  IF at = 0 THEN <<s>>
        ELSE <<SubSeq(s, 1, at - 1), SubSeq(s, at + Len(sep), Len(s))>>

\* s.replace(c, "") for a one-character c
RemoveChar(s, c) == SelectSeq(s, LAMBDA x : x # c)

IsSpace(c) == c \in {" ", NL, "\t"}

\* s.strip()
Strip(s) ==
    IF \A k \in 1 .. Len(s) : IsSpace(s[k]) THEN <<>>
    ELSE SubSeq(s,
                CHOOSE k \in 1 .. Len(s) :
                    ~IsSpace(s[k]) /\ \A n \in 1 .. (k - 1) : IsSpace(s[n]),
                CHOOSE k \in 1 .. Len(s) :
                    ~IsSpace(s[k]) /\ \A n \in (k + 1) .. Len(s) : IsSpace(s[n]))

\* sep.join(parts)
RECURSIVE Join(_, _)
Join(parts, sep) ==
    IF parts = <<>> THEN <<>>
    ELSE IF Len(parts) = 1 THEN parts[1]
    ELSE parts[1] \o sep \o Join(Tail(parts), sep)

Digit(d) == <<"0", "1", "2", "3", "4", "5", "6", "7", "8", "9">>[d + 1]

\* str(n) for an integer n >= 0
RECURSIVE Dec(_)
Dec(n) == IF n < 10 THEN <<Digit(n)>> ELSE Dec(n \div 10) \o <<Digit(n % 10)>>

\* f"{n}" for any integer
FormatInt(n) == IF n < 0 THEN <<"-">> \o Dec(-n) ELSE Dec(n)

\* the hundredths f"{score:.2f}" keeps of |score|: nearest, ties to even
RoundHundredths(a) ==
    LET h == a \div 10
        r == a % 10
    IN  IF r > 5 \/ (r = 5 /\ h % 2 = 1) THEN h + 1 ELSE h

\* f"{score:.2f}" of the score t/1000: sign, integer part, point, two digits
FormatScore(t) ==
    LET h == RoundHundredths(Abs(t))
    IN  (IF t < 0 THEN <<"-">> ELSE <<>>)
        \o Dec(h \div 100) \o <<".">> \o <<Digit((h \div 10) % 10), Digit(h % 10)>>

----------------------------------------------------------------------------
(* Configuration (config.py) and the literals of retriever.py and app.py.  *)

EMBEDDING_MODEL == "llama-text-embed-v2"
RETRIEVAL_K == 4

SEPARATOR == <<NL, NL, "-", "-", "-", NL, NL>>

RELEVANCE_TAG == <<"[", "R", "e", "l", "e", "v", "a", "n", "c", "e", ":">>

NO_RESULTS ==
    <<"N", "o", " ", "r", "e", "l", "e", "v", "a", "n", "t", " ",
      "d", "o", "c", "u", "m", "e", "n", "t", "a", "t", "i", "o", "n", " ",
      "f", "o", "u", "n", "d", " ", "f", "o", "r", " ", "t", "h", "i", "s", " ",
      "q", "u", "e", "r", "y", ".">>

\* metadata.get(key, default)
Get(md, key, default) == IF key \in DOMAIN md THEN md[key] ELSE default

----------------------------------------------------------------------------
(* The remote embedding service and the remote vector store.               *)

\* the dimension of the vectors a model returns; no call of this repository
\* passes a "dimension" parameter, so it is the model's default
EmbeddingDimension(model, parameters) ==
    <<model, Get(parameters, "dimension", "default")>>

\* pc.inference.embed(model, inputs, parameters): one vector per input, in order
InferenceEmbed(model, inputs, parameters) ==
    [n \in 1 .. Len(inputs) |->
        [of |-> inputs[n],
         input_type |-> parameters.input_type,
         dim |-> EmbeddingDimension(model, parameters)]]

\* what the service records of a request
LogEntry(path, model, parameters) ==
    [path |-> path, model |-> model, parameters |-> parameters]

\* the similarity scores the store may report, in thousandths
Scores == {-4, 375, 834, 1250}

\* the sequences of n distinct elements of S
RECURSIVE Arrangements(_, _)
Arrangements(S, n) ==
    IF n = 0 THEN {<<>>}
    ELSE UNION {{<<x>> \o rest : rest \in Arrangements(S \ {x}, n - 1)} : x \in S}

\* the non-increasing sequences of n scores, none above top
RECURSIVE Descending(_, _)
Descending(n, top) ==
    IF n = 0 THEN {<<>>}
    ELSE UNION {{<<s>> \o rest : rest \in Descending(n - 1, s)} :
                    s \in {t \in Scores : t <= top}}

MaxScore == CHOOSE m \in Scores : \A t \in Scores : t <= m

\* index.query(vector, top_k, include_metadata=True).matches: the top_k
\* records nearest to the vector (all of them when the index holds fewer),
\* by descending score
IndexQuery(st, vector, top_k) ==
    LET n == IF Cardinality(DOMAIN st) < top_k THEN Cardinality(DOMAIN st) ELSE top_k
    IN  {[m \in 1 .. n |-> [id |-> ids[m], score |-> sc[m], metadata |-> st[ids[m]].metadata]] :
            ids \in Arrangements(DOMAIN st, n), sc \in Descending(n, MaxScore)}

\* index.upsert(vectors): each record is written under its id, replacing
\* the record the index held under that id
IndexUpsert(st, vectors) ==
    LET ids == {vectors[n].id : n \in DOMAIN vectors}
        last(id) == CHOOSE n \in DOMAIN vectors :
                        /\ vectors[n].id = id
                        /\ \A m \in DOMAIN vectors : vectors[m].id = id => m <= n
    IN  [id \in DOMAIN st \cup ids |->
            IF id \in ids
            THEN [values |-> vectors[last(id)].values,
                  metadata |-> vectors[last(id)].metadata]
            ELSE st[id]]

----------------------------------------------------------------------------
(* retriever.py                                                            *)

\* embed_text asking for a passage embedding
embed_text_parameters_passage == [input_type |-> "passage"]

\* the request embed_text sends
embed_text_parameters == [input_type |-> "query"]

embed_text_model == EMBEDDING_MODEL

\* embed_text(text): response.data[0].values
embed_text(text) ==
    InferenceEmbed(embed_text_model, <<text>>, embed_text_parameters)[1]

\* RenderMatch showing the 0-indexed page
RenderMatchPageIndex(text, score, page) ==
    <<"[", "R", "e", "l", "e", "v", "a", "n", "c", "e", ":", " ">>
    \o FormatScore(score)
    \o <<" ", "|", " ", "P", "a", "g", "e", " ">>
    \o FormatInt(page)
    \o <<"]", NL>>
    \o text

\* the string appended to results for one match
RenderMatch(text, score, page) ==
    <<"[", "R", "e", "l", "e", "v", "a", "n", "c", "e", ":", " ">>
    \o FormatScore(score)
    \o <<" ", "|", " ", "P", "a", "g", "e", " ">>
    \o FormatInt(page + 1)
    \o <<"]", NL>>
    \o text

\* the loop over matches: results, in the order of the matches
RECURSIVE CollectResults(_)
CollectResults(ms) ==
    IF ms = <<>> THEN <<>>
    ELSE LET match == Head(ms)
             text == Get(match.metadata, "text", <<>>)
             score == match.score
             page == Get(match.metadata, "page", 0)
         IN  (IF text # <<>> THEN <<RenderMatch(text, score, page)>> ELSE <<>>)
             \o CollectResults(Tail(ms))

\* FormatMatches without the second test for nothing to show
FormatMatchesUnchecked(ms) ==
    IF ms = <<>> THEN NO_RESULTS ELSE Join(CollectResults(ms), SEPARATOR)

\* what retrieve_context returns for the matches of search_documents
FormatMatches(ms) ==
    IF ms = <<>> THEN NO_RESULTS
    ELSE LET results == CollectResults(ms)
         IN  IF results = <<>> THEN NO_RESULTS ELSE Join(results, SEPARATOR)

----------------------------------------------------------------------------
(* app.py: the sources the UI extracts from the agent's messages           *)

\* ParseChunk that cuts the header at the pipe instead of the bracket
ParseChunkAtPipe(chunk) ==
    IF ~Contains(chunk, RELEVANCE_TAG) THEN <<>>
    ELSE LET halves == SplitOnce(chunk, <<"]">>)
         IN  IF Len(halves) < 2 THEN <<>>
             ELSE <<[meta |-> RemoveChar(Split(chunk, <<"|">>)[1], "["),
                     text |-> Strip(halves[2])]>>

\* one chunk of a tool message: <<source>>, or <<>> when it is skipped
ParseChunk(chunk) ==
    IF ~Contains(chunk, RELEVANCE_TAG) THEN <<>>
    ELSE LET halves == SplitOnce(chunk, <<"]">>)
         IN  IF Len(halves) < 2 THEN <<>>
             ELSE <<[meta |-> RemoveChar(Split(chunk, <<"]">>)[1], "["),
                     text |-> Strip(halves[2])]>>

RECURSIVE ParseChunks(_)
ParseChunks(parts) ==
    IF parts = <<>> THEN <<>>
    ELSE ParseChunk(Head(parts)) \o ParseChunks(Tail(parts))

RECURSIVE parse_sources_from_tool_output(_)
parse_sources_from_tool_output(event_messages) ==
    IF event_messages = <<>> THEN <<>>
    ELSE LET msg == Head(event_messages)
             content == Get(msg, "content", <<>>)
         IN  (IF /\ "type" \in DOMAIN msg
                 /\ msg.type = "tool"
                 /\ content # <<>>
                 /\ Contains(content, RELEVANCE_TAG)
              THEN ParseChunks(Split(content, SEPARATOR))
              ELSE <<>>)
             \o parse_sources_from_tool_output(Tail(event_messages))

----------------------------------------------------------------------------
(* The retrieval tool and the UI's reading of its output, as actions.      *)

Queries == {<<"d", "i">>, <<>>}

\* search_documents(query, k): embed the query, then query the index; each
\* remote call may raise
search_documents_outcomes(query, k) ==
    {[raised |-> TRUE, matches |-> <<>>]}
    \cup {[raised |-> FALSE, matches |-> ms] : ms \in IndexQuery(store, embed_text(query), k)}

\* what a caller of the tool passes beside the query: nothing (0) or a k
RequestedKs == {0, 1, RETRIEVAL_K + 1}

\* the tool call retrieve_context(query).  The function takes the query
\* alone and passes k = RETRIEVAL_K to search_documents; a k the caller adds
\* is dropped by the tool's argument schema, or the call is rejected before
\* the body runs
retrieve_context(query) ==
    /\ rpc = "idle"
    /\ \E k \in RequestedKs :
          /\ requested_k' = k
          /\ \/ /\ embedLog' = embedLog
                       \cup {LogEntry("query", embed_text_model, embed_text_parameters)}
                /\ query_embedding' = embed_text(query)
                /\ query_top_k' = RETRIEVAL_K
                /\ \E r \in search_documents_outcomes(query, RETRIEVAL_K) :
                      IF r.raised
                      THEN /\ rpc' = "raised"
                           /\ matches' = <<>>
                           /\ output' = <<>>
                      ELSE /\ rpc' = "returned"
                           /\ matches' = r.matches
                           /\ output' = FormatMatches(r.matches)
             \/ /\ k # 0
                /\ rpc' = "raised"
                /\ matches' = <<>>
                /\ output' = <<>>
                /\ UNCHANGED <<embedLog, query_embedding, query_top_k>>
    /\ sources' = <<>>
    /\ UNCHANGED <<store, indexerVars, evaluatorVars, splitterVars, chatVars>>

\* the agent hands the tool's output to the UI as a tool message
\* (app.py, the loop over agent.stream events)
AgentEvent ==
    /\ rpc = "returned"
    /\ sources' = parse_sources_from_tool_output(
                     <<[type |-> "human", content |-> <<"q">>],
                       [type |-> "ai", content |-> <<>>],
                       [type |-> "tool", content |-> output]>>)
    /\ rpc' = "parsed"
    /\ UNCHANGED <<remoteVars, indexerVars, evaluatorVars, splitterVars, chatVars,
                   requested_k, query_top_k, query_embedding, matches, output>>

\* the chat turn is over; the next question finds the tool idle again
EndTurn ==
    /\ rpc \in {"raised", "parsed"}
    /\ rpc' = "idle"
    /\ requested_k' = 0
    /\ query_top_k' = 0
    /\ matches' = <<>>
    /\ output' = <<>>
    /\ sources' = <<>>
    /\ UNCHANGED <<remoteVars, indexerVars, evaluatorVars, splitterVars, chatVars,
                   query_embedding>>

RetrieverNext ==
    \/ \E q \in Queries : retrieve_context(q)
    \/ AgentEvent
    \/ EndTurn

----------------------------------------------------------------------------
(* indexer.py: load_and_split_pdf and the text splitter it configures.     *)
(* RecursiveCharacterTextSplitter is used with the library's defaults      *)
(* beside the three arguments load_and_split_pdf passes: separators        *)
(* "\n\n", "\n", " ", "", the separator kept at the start of the piece     *)
(* that follows it, len as the length function, whitespace stripped from   *)
(* the ends of every chunk.  Loops over a text are folds that finish their *)
(* left half before they start the right one.                              *)

CHUNK_SIZE == 600
CHUNK_OVERLAP == 50

SEPARATORS == <<<<NL, NL>>, <<NL>>, <<" ">>, <<>>>>

\* re.search(separator, text)
Occurs(text, separator) ==
    \E k \in 1 .. (Len(text) - Len(separator) + 1) :
        SubSeq(text, k, k + Len(separator) - 1) = separator

\* re.split meets position k: a match starts there if the separator stands
\* there and the match before it has ended
ScanAt(found, text, separator, k) ==
    IF k >= found.next /\ SubSeq(text, k, k + Len(separator) - 1) = separator
    THEN [starts |-> Append(found.starts, k), next |-> k + Len(separator)]
    ELSE found

RECURSIVE ScanRange(_, _, _, _, _)
ScanRange(found, text, separator, lo, hi) ==
    IF lo > hi THEN found
    ELSE IF lo = hi THEN ScanAt(found, text, separator, lo)
    ELSE LET mid == (lo + hi) \div 2
             left == ScanRange(found, text, separator, lo, mid)
         IN  IF left.next > 0
             THEN ScanRange(left, text, separator, mid + 1, hi)
             ELSE left

\* _split_text_with_regex(text, separator, keep_separator=True): the pieces
\* between the matches, each match kept at the start of the piece after it,
\* empty pieces dropped; the empty separator gives the characters
split_text_with_regex(text, separator) ==
    IF separator = <<>> THEN [n \in 1 .. Len(text) |-> <<text[n]>>]
    ELSE LET starts == ScanRange([starts |-> <<>>, next |-> 1], text, separator,
                                 1, Len(text) - Len(separator) + 1).starts
             n == Len(starts)
             pieces == [j \in 1 .. (n + 1) |->
                          SubSeq(text,
                                 IF j = 1 THEN 1 ELSE starts[j - 1],
                                 IF j = n + 1 THEN Len(text) ELSE starts[j] - 1)]
         IN  SelectSeq(pieces, LAMBDA piece : piece # <<>>)

RECURSIVE JoinRange(_, _, _, _)
JoinRange(parts, separator, lo, hi) ==
    IF lo = hi THEN parts[lo]
    ELSE LET mid == (lo + hi) \div 2
         IN  JoinRange(parts, separator, lo, mid) \o separator
             \o JoinRange(parts, separator, mid + 1, hi)

\* _join_docs(docs, separator): joined and stripped; "" stands for None
join_docs(parts, separator) ==
    IF parts = <<>> THEN <<>> ELSE Strip(JoinRange(parts, separator, 1, Len(parts)))

\* a while loop that keeps no overlap: it empties current_doc
PopToEmpty(m, len, separator_len) ==
    IF m.total > 0
    THEN [m EXCEPT !.total = @ - (Len(m.current_doc[1])
                                  + (IF Len(m.current_doc) > 1 THEN separator_len ELSE 0)),
                   !.current_doc = Tail(@)]
    ELSE m

\* one pass of the while loop of _merge_splits: the first split leaves
\* current_doc while more than the overlap is kept, or while the next split
\* does not fit
Pop(m, len, separator_len) ==
    IF \/ m.total > CHUNK_OVERLAP
       \/ /\ m.total + len + (IF Len(m.current_doc) > 0 THEN separator_len ELSE 0)
                > CHUNK_SIZE
          /\ m.total > 0
    THEN [m EXCEPT !.total = @ - (Len(m.current_doc[1])
                                  + (IF Len(m.current_doc) > 1 THEN separator_len ELSE 0)),
                   !.current_doc = Tail(@)]
    ELSE m

\* the while loop: it ends within as many passes as current_doc has splits,
\* and a pass after its end changes nothing
RECURSIVE PopUpTo(_, _, _, _)
PopUpTo(m, len, separator_len, passes) ==
    IF passes = 0 THEN m
    ELSE IF passes = 1 THEN Pop(m, len, separator_len)
    ELSE LET first == PopUpTo(m, len, separator_len, passes \div 2)
         IN  IF first.total >= 0
             THEN PopUpTo(first, len, separator_len, passes - passes \div 2)
             ELSE first

\* one pass of the for loop of _merge_splits, for the split d
Add(m, d, separator) ==
    LET len == Len(d)
        separator_len == Len(separator)
        emit == /\ m.total + len + (IF Len(m.current_doc) > 0 THEN separator_len ELSE 0)
                      > CHUNK_SIZE
                /\ Len(m.current_doc) > 0
        doc == join_docs(m.current_doc, separator)
        emitted == IF emit /\ doc # <<>> THEN [m EXCEPT !.docs = Append(@, doc)] ELSE m
        kept == IF emit THEN PopUpTo(emitted, len, separator_len, Len(m.current_doc))
                ELSE m
        next_doc == Append(kept.current_doc, d)
    IN  [kept EXCEPT !.current_doc = next_doc,
                     !.total = @ + len + (IF Len(next_doc) > 1 THEN separator_len ELSE 0)]

RECURSIVE AddRange(_, _, _, _, _)
AddRange(m, splits, separator, lo, hi) ==
    IF lo > hi THEN m
    ELSE IF lo = hi THEN Add(m, splits[lo], separator)
    ELSE LET mid == (lo + hi) \div 2
             left == AddRange(m, splits, separator, lo, mid)
         IN  IF left.total >= 0
             THEN AddRange(left, splits, separator, mid + 1, hi)
             ELSE left

\* _merge_splits(splits, separator)
merge_splits(splits, separator) ==
    LET m == AddRange([current_doc |-> <<>>, total |-> 0, docs |-> <<>>],
                      splits, separator, 1, Len(splits))
        doc == join_docs(m.current_doc, separator)
    IN  IF doc = <<>> THEN m.docs ELSE Append(m.docs, doc)

\* the separator _split_text picks: the first that is empty or occurs in the
\* text, 0 if none is
SeparatorAt(text, separators) ==
    LET hits == {k \in 1 .. Len(separators) :
                    separators[k] = <<>> \/ Occurs(text, separators[k])}
    IN  IF hits = {} THEN 0 ELSE Min(hits)

\* _split_text(text, separators), and its loop over the splits from one
\* position on: runs of splits shorter than the chunk size are merged, a
\* split that is not shorter is split again with the separators that remain
RECURSIVE split_text(_, _)
RECURSIVE SplitsFrom(_, _, _)
SplitsFrom(splits, from, new_separators) ==
    LET long == {k \in from .. Len(splits) : ~(Len(splits[k]) < CHUNK_SIZE)}
        at == IF long = {} THEN Len(splits) + 1 ELSE Min(long)
        good_splits == SubSeq(splits, from, at - 1)
        merged == IF good_splits = <<>> THEN <<>> ELSE merge_splits(good_splits, <<>>)
    IN  IF at > Len(splits) THEN merged
        ELSE merged
             \o (IF new_separators = <<>> THEN <<splits[at]>>
                 ELSE split_text(splits[at], new_separators))
             \o SplitsFrom(splits, at + 1, new_separators)

split_text(text, separators) ==
    LET at == SeparatorAt(text, separators)
        separator == IF at = 0 THEN separators[Len(separators)] ELSE separators[at]
        new_separators == IF at = 0 \/ separator = <<>> THEN <<>>
                          ELSE SubSeq(separators, at + 1, Len(separators))
    IN  SplitsFrom(split_text_with_regex(text, separator), 1, new_separators)

\* create_documents for one page, from its n-th chunk on: every chunk gets a
\* copy of the page's metadata and, as add_start_index is set, the index at
\* which text.find meets it, searched from where the chunk before it ended
\* less the overlap
RECURSIVE ChunksFrom(_, _, _, _, _, _)
ChunksFrom(text, metadata, texts, n, index, previous_chunk_len) ==
    IF n > Len(texts) THEN <<>>
    ELSE LET chunk == texts[n]
             offset == index + previous_chunk_len - CHUNK_OVERLAP
             found == Find(text, chunk, (IF offset > 0 THEN offset ELSE 0) + 1) - 1
         IN  <<[page_content |-> chunk,
                metadata |-> [start_index |-> found] @@ metadata]>>
             \o ChunksFrom(text, metadata, texts, n + 1, found, Len(chunk))

\* split_documents(documents)
RECURSIVE split_documents(_)
split_documents(documents) ==
    IF documents = <<>> THEN <<>>
    ELSE LET doc == Head(documents)
         IN  ChunksFrom(doc.page_content, doc.metadata,
                        split_text(doc.page_content, SEPARATORS), 1, 0, 0)
             \o split_documents(Tail(documents))

\* load_and_split_pdf(pdf_path): the pages of the PDF, split
load_and_split_pdf ==
    /\ ipc = "start"
    /\ pdf' = split_documents(docs)
    /\ UNCHANGED <<remoteVars, ipc, chunks, i, confirm, stdout, outcome, run, snapshots,
                   retrieverVars, evaluatorVars, splitterVars, chatVars>>

SplitterNext == load_and_split_pdf

----------------------------------------------------------------------------
(* indexer.py                                                              *)

batch_size == 50

UPPER == <<"A", "B", "C", "D", "E", "F", "G", "H", "I", "J", "K", "L", "M",
           "N", "O", "P", "Q", "R", "S", "T", "U", "V", "W", "X", "Y", "Z">>

LOWER == <<"a", "b", "c", "d", "e", "f", "g", "h", "i", "j", "k", "l", "m",
           "n", "o", "p", "q", "r", "s", "t", "u", "v", "w", "x", "y", "z">>

\* s.lower()
Lower(s) ==
    [n \in 1 .. Len(s) |->
        IF \E k \in 1 .. 26 : UPPER[k] = s[n]
        THEN LOWER[CHOOSE k \in 1 .. 26 : UPPER[k] = s[n]]
        ELSE s[n]]

\* a test that takes anything but "n" for a yes
ConfirmedUnlessNo(answer) == Lower(answer) # <<"n">>

\* main's test of the operator's answer
Confirmed(answer) == Lower(answer) = <<"y">>

\* the request embed_batch sends
embed_batch_parameters == [input_type |-> "passage"]

embed_batch_model == EMBEDDING_MODEL

\* embed_batch(pc, texts)
embed_batch(texts) == InferenceEmbed(embed_batch_model, texts, embed_batch_parameters)

\* ids numbered on from the records the index already holds
DocIdAfterStored(n) ==
    <<"d", "o", "c", "_">> \o FormatInt(Cardinality(DOMAIN run.startStore) + n)

\* f"doc_{n}"
DocId(n) == <<"d", "o", "c", "_">> \o FormatInt(n)

\* a slice that runs one document into the next batch
BatchWithNext(documents, at) ==
    SubSeq(documents, at + 1,
           IF at + batch_size + 1 < Len(documents) THEN at + batch_size + 1
           ELSE Len(documents))

\* documents[i : i + batch_size]
Batch(documents, at) ==
    SubSeq(documents, at + 1,
           IF at + batch_size < Len(documents) THEN at + batch_size ELSE Len(documents))

\* BatchVectors numbering each batch from 0
BatchVectorsFromZero(at, batch, embeddings) ==
    [j \in 1 .. (IF Len(batch) < Len(embeddings) THEN Len(batch) ELSE Len(embeddings)) |->
        [id |-> <<"d", "o", "c", "_">> \o FormatInt(j - 1),
         values |-> embeddings[j],
         metadata |-> [text |-> batch[j].page_content,
                       page |-> Get(batch[j].metadata, "page", 0),
                       source |-> Get(batch[j].metadata, "source", "")]]]

\* the vectors index_documents builds from zip(batch, embeddings)
BatchVectors(at, batch, embeddings) ==
    [j \in 1 .. (IF Len(batch) < Len(embeddings) THEN Len(batch) ELSE Len(embeddings)) |->
        [id |-> DocId(at + (j - 1)),
         values |-> embeddings[j],
         metadata |-> [text |-> batch[j].page_content,
                       page |-> Get(batch[j].metadata, "page", 0),
                       source |-> Get(batch[j].metadata, "source", "")]]]

\* the texts of a batch
Texts(batch) == [j \in 1 .. Len(batch) |-> batch[j].page_content]

\* main: load and split the PDF, then prompt
main_load ==
    /\ ipc = "start"
    /\ chunks' = pdf
    /\ ipc' = "prompt"
    /\ run' = [run EXCEPT !.prompted = TRUE]
    /\ UNCHANGED <<remoteVars, pdf, i, confirm, stdout, outcome, snapshots,
                   retrieverVars, evaluatorVars, splitterVars, chatVars>>

\* main: the operator answers the prompt
main_confirm(answer) ==
    /\ ipc = "prompt"
    /\ confirm' = answer
    /\ ipc' = IF Confirmed(answer) THEN "indexing" ELSE "cancelled"
    /\ i' = 0
    /\ UNCHANGED <<remoteVars, pdf, chunks, stdout, outcome, run, snapshots,
                   retrieverVars, evaluatorVars, splitterVars, chatVars>>

\* index_documents: one pass of the loop over the batches; embed_batch or
\* index.upsert may raise, and nothing catches it
index_batch ==
    /\ ipc = "indexing"
    /\ i < Len(chunks)
    /\ LET batch == Batch(chunks, i)
           embeddings == embed_batch(Texts(batch))
           vectors == BatchVectors(i, batch, embeddings)
           done == IF i + batch_size < Len(chunks) THEN i + batch_size ELSE Len(chunks)
       IN  /\ embedLog' = embedLog
                \cup {LogEntry("ingest", embed_batch_model, embed_batch_parameters)}
           /\ \/ /\ ipc' = "raised"
                 /\ outcome' = [kind |-> "exception", from |-> "embed_batch"]
                 /\ run' = [run EXCEPT !.calls = @ + 1]
                 /\ UNCHANGED <<store, i, stdout>>
              \/ /\ ipc' = "raised"
                 /\ outcome' = [kind |-> "exception", from |-> "upsert"]
                 /\ run' = [run EXCEPT !.calls = @ + 2]
                 /\ UNCHANGED <<store, i, stdout>>
              \/ /\ store' = IndexUpsert(store, vectors)
                 /\ stdout' = Append(stdout, [line |-> "progress", done |-> done,
                                              total |-> Len(chunks)])
                 /\ i' = i + batch_size
                 /\ run' = [run EXCEPT
                               !.calls = @ + 2,
                               !.upserted = @ \o [j \in 1 .. Len(vectors) |-> vectors[j].id]]
                 /\ UNCHANGED <<ipc, outcome>>
    /\ UNCHANGED <<pdf, chunks, confirm, snapshots, retrieverVars, evaluatorVars, splitterVars, chatVars>>

\* index_documents: the loop is over, the success line is printed, None returned
index_finish ==
    /\ ipc = "indexing"
    /\ i >= Len(chunks)
    /\ stdout' = Append(stdout, [line |-> "success", done |-> Len(chunks),
                                 total |-> Len(chunks)])
    /\ outcome' = [kind |-> "returned", from |-> "index_documents"]
    /\ ipc' = "done"
    /\ snapshots' = Append(snapshots, store)
    /\ UNCHANGED <<remoteVars, pdf, chunks, i, confirm, run, retrieverVars, evaluatorVars, splitterVars, chatVars>>

MaxRuns == 2

NewRun(n, st) ==
    [number |-> n, prompted |-> FALSE, calls |-> 0, upserted |-> <<>>, startStore |-> st]

\* the operator starts the script again
main_again ==
    /\ ipc \in {"done", "cancelled", "raised"}
    /\ run.number < MaxRuns
    /\ ipc' = "start"
    /\ chunks' = <<>>
    /\ i' = 0
    /\ confirm' = <<>>
    /\ stdout' = <<>>
    /\ outcome' = [kind |-> "none", from |-> "none"]
    /\ run' = NewRun(run.number + 1, store)
    /\ UNCHANGED <<remoteVars, pdf, snapshots, retrieverVars, evaluatorVars, splitterVars, chatVars>>

\* what an operator may type
Answers == {<<"y">>, <<"Y">>, <<"n">>, <<>>, <<"y", "e", "s">>, <<"y", " ">>, <<"N">>}

IndexerNext ==
    \/ main_load
    \/ \E answer \in Answers : main_confirm(answer)
    \/ index_batch
    \/ index_finish
    \/ main_again

\* the chunk with 0-based position n of a PDF: PyPDFLoader sets page and
\* source, the splitter adds start_index; a few chunks lack page or source
Chunk(n) ==
    [page_content |-> <<"c">> \o Dec(n % 60),
     metadata |->
        IF n % 7 = 3 THEN [source |-> "fastapi_tutorial.pdf", start_index |-> 0]
        ELSE IF n % 7 = 5 THEN [page |-> n \div 3, start_index |-> 0]
        ELSE [page |-> n \div 3, source |-> "fastapi_tutorial.pdf", start_index |-> 0]]

Pdf(N) == [n \in 1 .. N |-> Chunk(n - 1)]

MaxBatches == 2

\* chunk counts around every multiple of the batch size
ChunkCounts ==
    {k * batch_size + d : k \in 0 .. MaxBatches, d \in {0, 1, batch_size - 1}}

IndexerIdle ==
    /\ ipc = "start"
    /\ chunks = <<>>
    /\ i = 0
    /\ confirm = <<>>
    /\ stdout = <<>>
    /\ outcome = [kind |-> "none", from |-> "none"]
    /\ run = NewRun(1, store)
    /\ snapshots = <<>>

\* nothing has been read from the PDF yet
SplitterIdle == docs = <<>>

\* the session state of a fresh browser session (app.py, SESSION STATE)
ChatIdle ==
    /\ messages = <<>>
    /\ invoked = {}
    /\ shown = "none"

\* no query has been embedded yet
NoVector == [of |-> <<>>, input_type |-> "none", dim |-> <<>>]

RetrieverIdle ==
    /\ rpc = "idle"
    /\ requested_k = 0
    /\ query_top_k = 0
    /\ query_embedding = NoVector
    /\ matches = <<>>
    /\ output = <<>>
    /\ sources = <<>>

----------------------------------------------------------------------------
(* evaluation.py                                                           *)

\* Python values as the evaluation library hands them back
None == [type |-> "NoneType", nan |-> FALSE, v |-> 0]

Float(thousandths) == [type |-> "float", nan |-> FALSE, v |-> thousandths]

NaN == [type |-> "float", nan |-> TRUE, v |-> 0]

Str(x) == [type |-> "str", nan |-> FALSE, v |-> x]

List(x) == [type |-> "list", nan |-> FALSE, v |-> x]

\* isinstance(x, float) and math.isnan(x)
IsFloatNaN(x) == x.type = "float" /\ x.nan

\* the loop that handles NaN values
HandleNaN(row) == [key \in DOMAIN row |-> IF IsFloatNaN(row[key]) THEN None ELSE row[key]]

\* the mapping of the except branch
ErrorResult(e) == [error |-> Str(e), faithfulness |-> None, answer_relevancy |-> None]

\* the one-row dataset handed to evaluate
DatasetRow(question, answer, contexts) ==
    [user_input |-> Str(question), response |-> Str(answer),
     retrieved_contexts |-> List(contexts)]

\* what a metric column of the library's result may hold
MetricValues == {Float(0), Float(700), NaN, None, Str("n/a")}

\* result.to_pandas().iloc[0].to_dict(): the two metric columns, with or
\* without the columns of the dataset beside them
ResultRows(dataset_row) ==
    LET metrics == [{"faithfulness", "answer_relevancy"} -> MetricValues]
    IN  metrics \cup {m @@ dataset_row : m \in metrics}

\* the library calls of evaluate_response, in order; those before the try
\* statement are not covered by the except branch
SetupCalls == {"Dataset.from_dict", "LangchainLLMWrapper", "LangchainEmbeddingsWrapper"}

TriedCalls == {"evaluate", "to_pandas"}

evaluate_response(question, answer, contexts) ==
    /\ epc = "idle"
    /\ \/ \E call \in SetupCalls :
            /\ failed' = call
            /\ epc' = "raised"
            /\ scores' = <<>>
       \/ \E call \in TriedCalls :
            /\ failed' = call
            /\ epc' = "returned"
            /\ scores' = ErrorResult(call)
       \/ \E row \in ResultRows(DatasetRow(question, answer, contexts)) :
            /\ failed' = "none"
            /\ epc' = "returned"
            /\ scores' = HandleNaN(row)
    /\ UNCHANGED <<remoteVars, indexerVars, retrieverVars, splitterVars, chatVars>>

\* the UI is back at the evaluation tab
EvaluateAgain ==
    /\ epc \in {"returned", "raised"}
    /\ epc' = "idle"
    /\ failed' = "none"
    /\ scores' = <<>>
    /\ UNCHANGED <<remoteVars, indexerVars, retrieverVars, splitterVars, chatVars>>

Questions == {"What is FastAPI?", "Dependency injection", ""}

ContextLists == {<<"ab">>, <<"ab", "cd">>}

EvaluatorNext ==
    \/ \E q \in Questions, c \in ContextLists : evaluate_response(q, "FastAPI is a framework.", c)
    \/ EvaluateAgain

EvaluatorIdle ==
    /\ epc = "idle"
    /\ failed = "none"
    /\ scores = <<>>

----------------------------------------------------------------------------
(* app.py: the chat tab.  One action is one run of the script from top to  *)
(* bottom for one interaction of the user; st.rerun() starts the run that  *)
(* draws the page again, on which st.chat_input returns nothing and no     *)
(* button reads as clicked.                                                *)

\* the examples of the side column
EXAMPLES ==
    {"What is FastAPI?", "Create a POST endpoint", "Path parameters vs query params",
     "Dependency injection", "Request validation"}

\* what a user may type into the chat input
Prompts == {"What is FastAPI?", "How do I declare a route?"}

AI_ANSWER == "FastAPI is a web framework."

\* the messages of the last event agent.stream yields for a prompt: no
\* answer at all, an answer without a tool call, a tool call without an
\* answer after it, an answer after a tool call
AgentRuns(prompt) ==
    LET human == [type |-> "human", content |-> prompt]
        call == [type |-> "ai", content |-> "", tool_calls |-> TRUE]
        context == [type |-> "tool", content |-> RenderMatch(<<"a", "b">>, 834, 12)]
        answer == [type |-> "ai", content |-> AI_ANSWER, tool_calls |-> FALSE]
    IN  {<<human>>, <<human, answer>>, <<human, call, context>>,
         <<human, call, context, answer>>}

\* an ai message with content and without tool calls
IsAnswer(msg) ==
    /\ Get(msg, "type", "") = "ai"
    /\ Get(msg, "content", "") # ""
    /\ ~Get(msg, "tool_calls", FALSE)

\* the response the handler's loop over the events is left with
Response(event_messages) ==
    LET answers == SelectSeq(event_messages, IsAnswer)
    IN  IF answers = <<>> THEN "" ELSE answers[Len(answers)].content

MaxMessages == 3

\* the user submits a prompt: the handler of st.chat_input
chat_input(prompt) ==
    /\ Len(messages) < MaxMessages
    /\ invoked' = invoked \cup {Len(messages) + 1}
    /\ LET asked == Append(messages, [role |-> "user", content |-> prompt])
       IN  \/ \E event_messages \in AgentRuns(prompt) :
                LET response == Response(event_messages)
                IN  IF response # ""
                    THEN /\ messages' = Append(asked,
                                           [role |-> "assistant",
                                            content |-> response,
                                            sources |-> parse_sources_from_tool_output(
                                                            event_messages),
                                            question |-> prompt])
                         /\ shown' = "none"
                    ELSE /\ messages' = asked
                         /\ shown' = "Unable to generate response."
           \/ /\ messages' = asked
              /\ shown' = "Error"
    /\ UNCHANGED <<remoteVars, indexerVars, retrieverVars, evaluatorVars, splitterVars>>

\* the user clicks an example: the message is appended and the script reruns
example_button(ex) ==
    /\ Len(messages) < MaxMessages
    /\ messages' = Append(messages, [role |-> "user", content |-> ex])
    /\ shown' = "none"
    /\ UNCHANGED <<remoteVars, indexerVars, retrieverVars, evaluatorVars, splitterVars,
                   invoked>>

\* the user clicks Clear Chat
clear_chat ==
    /\ messages' = <<>>
    /\ invoked' = {}
    /\ shown' = "none"
    /\ scores' = <<>>
    /\ epc' = "idle"
    /\ failed' = "none"
    /\ UNCHANGED <<remoteVars, indexerVars, retrieverVars, splitterVars>>

\* any other interaction: the script runs again and draws the messages
rerun ==
    /\ shown # "none"
    /\ shown' = "none"
    /\ UNCHANGED <<remoteVars, indexerVars, retrieverVars, evaluatorVars, splitterVars,
                   messages, invoked>>

ChatNext ==
    \/ \E prompt \in Prompts : chat_input(prompt)
    \/ \E ex \in EXAMPLES : example_button(ex)
    \/ clear_chat
    \/ rerun

----------------------------------------------------------------------------
(* Specifications.                                                         *)

\* records an index may hold when the tool is called: written by the
\* indexer or by anyone else (text or page may be missing or empty)
SeedRecord(id, md) ==
    [id |-> id,
     values |-> embed_batch(<<Get(md, "text", <<>>)>>)[1],
     metadata |-> md]

SeedRecords ==
    {SeedRecord(<<"a">>, [text |-> <<"a", "b">>, page |-> 12, source |-> "m.pdf"]),
     SeedRecord(<<"b">>, [text |-> <<>>, page |-> 0, source |-> "m.pdf"]),
     SeedRecord(<<"c">>, [source |-> "m.pdf"]),
     SeedRecord(<<"d">>, [text |-> <<"x">> \o SEPARATOR \o RELEVANCE_TAG
                                      \o <<" ", "9", "]", "y">>,
                          source |-> "m.pdf"]),
     SeedRecord(<<"e">>, [text |-> <<"c", NL, NL, "-", "-", "-">>, page |-> 9]),
     SeedRecord(<<"f">>, [text |-> <<"]", "[", "d", " ">>, page |-> 0])}

MaxSeeded == 4

SeedStores ==
    {[id \in {r.id : r \in S} |->
        LET r == CHOOSE x \in S : x.id = id
        IN  [values |-> r.values, metadata |-> r.metadata]] :
        S \in {T \in SUBSET SeedRecords : Cardinality(T) <= MaxSeeded}}

\* the tool and the UI alone, over an index that holds anything
InitRetriever ==
    /\ store \in SeedStores
    /\ embedLog = {}
    /\ pdf = <<>>
    /\ IndexerIdle
    /\ RetrieverIdle
    /\ EvaluatorIdle
    /\ SplitterIdle
    /\ ChatIdle

SpecRetriever == InitRetriever /\ [][RetrieverNext]_vars

\* the ingestion script alone, run up to MaxRuns times on the same PDF
InitIndexer ==
    /\ store \in {S \in SeedStores : Cardinality(DOMAIN S) <= 1 /\ DOMAIN S \subseteq {<<"a">>}}
    /\ embedLog = {}
    /\ pdf \in {Pdf(N) : N \in ChunkCounts}
    /\ IndexerIdle
    /\ RetrieverIdle
    /\ EvaluatorIdle
    /\ SplitterIdle
    /\ ChatIdle

SpecIndexer == InitIndexer /\ [][IndexerNext]_vars

\* the evaluation wrapper alone
InitEvaluator ==
    /\ store = <<>>
    /\ embedLog = {}
    /\ pdf = <<>>
    /\ IndexerIdle
    /\ RetrieverIdle
    /\ EvaluatorIdle
    /\ SplitterIdle
    /\ ChatIdle

SpecEvaluator == InitEvaluator /\ [][EvaluatorNext]_vars

PDF_PATH == "./fastapi_tutorial.pdf"

\* page texts: letters alone, words of nine letters, lines of 99 characters,
\* two paragraphs, blanks alone
Letters(n) == [k \in 1 .. n |-> LOWER[(k % 26) + 1]]

Words(n) == [k \in 1 .. n |-> IF k % 10 = 0 THEN " " ELSE LOWER[(k % 26) + 1]]

Lines(n) ==
    [k \in 1 .. n |-> IF k % 100 = 0 THEN NL
                      ELSE IF k % 10 = 0 THEN " " ELSE LOWER[(k % 26) + 1]]

Paragraphs(n) == Letters(n \div 2 - 1) \o <<NL, NL>> \o Letters(n - n \div 2 - 1)

Blanks(n) == [k \in 1 .. n |-> " "]

PageTexts ==
    {<<>>, Letters(CHUNK_SIZE), Letters(CHUNK_SIZE + 1), Letters(2 * CHUNK_SIZE),
     Words(2 * CHUNK_SIZE), Lines(2 * CHUNK_SIZE), Paragraphs(2 * CHUNK_SIZE),
     Blanks(2 * CHUNK_SIZE)}

MaxPages == 2

\* PyPDFLoader(pdf_path).load(): one document per page, with source and page
LoadedPages ==
    {[n \in 1 .. Len(texts) |->
        [page_content |-> texts[n],
         metadata |-> [source |-> PDF_PATH, page |-> n - 1]]] :
        texts \in UNION {[1 .. n -> PageTexts] : n \in 0 .. MaxPages}}

\* load_and_split_pdf alone, on a PDF of up to MaxPages pages
InitSplitter ==
    /\ store = <<>>
    /\ embedLog = {}
    /\ pdf = <<>>
    /\ docs \in LoadedPages
    /\ IndexerIdle
    /\ RetrieverIdle
    /\ EvaluatorIdle
    /\ ChatIdle

SpecSplitter == InitSplitter /\ [][SplitterNext]_vars

\* the chat tab alone, from a fresh session
InitChat ==
    /\ store = <<>>
    /\ embedLog = {}
    /\ pdf = <<>>
    /\ IndexerIdle
    /\ RetrieverIdle
    /\ EvaluatorIdle
    /\ SplitterIdle
    /\ ChatIdle

SpecChat == InitChat /\ [][ChatNext]_vars

MaxPipelineChunks == 1

\* ingestion, retrieval and evaluation together: the script fills an empty
\* index with a short PDF while the tool answers queries and answers are
\* evaluated
Init ==
    /\ store = <<>>
    /\ embedLog = {}
    /\ pdf \in {Pdf(N) : N \in 0 .. MaxPipelineChunks}
    /\ IndexerIdle
    /\ RetrieverIdle
    /\ EvaluatorIdle
    /\ SplitterIdle
    /\ ChatIdle

Next == IndexerNext \/ RetrieverNext \/ EvaluatorNext

Spec == Init /\ [][Next]_vars

\* ingestion and retrieval alone: the script fills the index while the tool
\* answers queries from it
PipelineNext == IndexerNext \/ RetrieverNext

SpecPipeline == Init /\ [][PipelineNext]_vars

----------------------------------------------------------------------------
(* Properties of retrieve_context and of the UI's parse of its output.     *)

HasText(m) == "text" \in DOMAIN m.metadata /\ m.metadata.text # <<>>

\* the matches whose text metadata is neither missing nor empty, in order
Kept(ms) == SelectSeq(ms, HasText)

PageOf(m) == IF "page" \in DOMAIN m.metadata THEN m.metadata.page ELSE 0

Answered == rpc \in {"returned", "parsed"}

\* the decimal numerals with two fractional digits that lie within half a
\* hundredth of the score t/1000
TwoDecimalNumerals(t) ==
    {(IF t < 0 THEN <<"-">> ELSE <<>>)
        \o Dec(h \div 100) \o <<".", Digit((h \div 10) % 10), Digit(h % 10)>> :
        h \in {g \in 0 .. (Abs(t) \div 10 + 1) : 10 * g - Abs(t) \in -5 .. 5}}

\* the renderings of one retained match the format contract allows
Segments(m) ==
    {<<"[", "R", "e", "l", "e", "v", "a", "n", "c", "e", ":", " ">> \o num
        \o <<" ", "|", " ", "P", "a", "g", "e", " ">> \o Dec(PageOf(m) + 1)
        \o <<"]", NL>> \o m.metadata.text :
        num \in TwoDecimalNumerals(m.score)}

\* out is the renderings of kept, in order, joined by the separator
RECURSIVE IsRendering(_, _)
IsRendering(out, kept) ==
    IF kept = <<>> THEN FALSE
    ELSE IF Len(kept) = 1 THEN out \in Segments(kept[1])
    ELSE \E seg \in Segments(kept[1]) :
            LET n == Len(seg) + Len(SEPARATOR)
            IN  /\ Len(out) > n
                /\ SubSeq(out, 1, n) = seg \o SEPARATOR
                /\ IsRendering(SubSeq(out, n + 1, Len(out)), Tail(kept))

\* C1: whatever ranked list the store returned, the output is the retained
\* matches (those with text), each rendered as the header
\* [Relevance: <score, 2 decimals> | Page <page + 1>], a newline and its
\* text, joined by the separator in the store's order: nothing reordered,
\* duplicated or omitted.
C1_FormatKeepsOrder ==
    (Answered /\ Kept(matches) # <<>>) => IsRendering(output, Kept(matches))

\* a reply in which a match without text sits between two retained matches
\* of different pages
C1_Witness ==
    /\ rpc = "returned"
    /\ Len(matches) = 3
    /\ HasText(matches[1]) /\ ~HasText(matches[2]) /\ HasText(matches[3])
    /\ PageOf(matches[1]) # PageOf(matches[3])
    /\ matches[1].score > matches[3].score

\* C2: the output is the sentinel exactly when the store returned no match
\* or only matches without text; it is never the empty string.
C2_SentinelIffNothingKept ==
    Answered =>
        /\ (Kept(matches) = <<>>) <=> (output = NO_RESULTS)
        /\ output # <<>>

\* the store returned matches, all of them without text
C2_Witness ==
    /\ rpc = "returned"
    /\ Len(matches) >= 2
    /\ Kept(matches) = <<>>
    /\ output = NO_RESULTS

\* reading a source's meta line back: "Relevance: <numeral> | Page <numeral>"
META_PREFIX == <<"R", "e", "l", "e", "v", "a", "n", "c", "e", ":", " ">>

META_MIDDLE == <<" ", "|", " ", "P", "a", "g", "e", " ">>

DigitValue(c) == CHOOSE d \in 0 .. 9 : Digit(d) = c

IsNumeral(s) == s # <<>> /\ \A n \in 1 .. Len(s) : \E d \in 0 .. 9 : Digit(d) = s[n]

RECURSIVE NumeralValue(_)
NumeralValue(s) ==
    IF s = <<>> THEN 0
    ELSE 10 * NumeralValue(SubSeq(s, 1, Len(s) - 1)) + DigitValue(s[Len(s)])

\* the thousandths a numeral "[-]<digits>.<2 digits>" denotes
ReadScore(s) ==
    LET neg == s # <<>> /\ s[1] = "-"
        body == IF neg THEN Tail(s) ELSE s
        dot == Find(body, <<".">>, 1)
        whole == SubSeq(body, 1, dot - 1)
        frac == SubSeq(body, dot + 1, Len(body))
    IN  IF dot # 0 /\ IsNumeral(whole) /\ IsNumeral(frac) /\ Len(frac) = 2
        THEN [ok |-> TRUE,
              value |-> (IF neg THEN -1 ELSE 1)
                            * (1000 * NumeralValue(whole) + 10 * NumeralValue(frac))]
        ELSE [ok |-> FALSE, value |-> 0]

\* the score and the page a source's meta line shows
ReadMeta(meta) ==
    LET mid == Find(meta, META_MIDDLE, Len(META_PREFIX) + 1)
        num == SubSeq(meta, Len(META_PREFIX) + 1, mid - 1)
        pg == SubSeq(meta, mid + Len(META_MIDDLE), Len(meta))
    IN  IF /\ Len(meta) > Len(META_PREFIX)
           /\ SubSeq(meta, 1, Len(META_PREFIX)) = META_PREFIX
           /\ mid # 0
           /\ ReadScore(num).ok
           /\ IsNumeral(pg)
        THEN [ok |-> TRUE, score |-> ReadScore(num).value, page |-> NumeralValue(pg)]
        ELSE [ok |-> FALSE, score |-> 0, page |-> 0]

Dashes == <<"-", "-", "-">>

\* no retained text holds three dashes in a row, so the separator occurs in
\* the output only where two renderings were joined
NoDashesInTexts ==
    \A n \in 1 .. Len(Kept(matches)) : ~Contains(Kept(matches)[n].metadata.text, Dashes)

\* C3 as stated: the sources parsed from the output are one per retained
\* match, in order, and each shows the score the store returned and the
\* (1-indexed) page of the match.
C3_RoundTripExact ==
    rpc = "parsed" =>
        /\ Len(sources) = Len(Kept(matches))
        /\ \A n \in 1 .. Len(sources) :
              LET got == ReadMeta(sources[n].meta)
              IN  /\ got.ok
                  /\ got.score = Kept(matches)[n].score
                  /\ got.page = PageOf(Kept(matches)[n]) + 1

\* C3 as amended: when no retained text holds "---", the sources are one
\* per retained match, in order; each shows the match's score rounded to
\* the nearest hundredth and its page index plus one, and the scores shown
\* never increase down the list.
C3_RoundTripRounded ==
    (rpc = "parsed" /\ NoDashesInTexts) =>
        /\ Len(sources) = Len(Kept(matches))
        /\ \A n \in 1 .. Len(sources) :
              LET got == ReadMeta(sources[n].meta)
                  m == Kept(matches)[n]
              IN  /\ got.ok
                  /\ got.score - m.score \in -5 .. 5
                  /\ got.score % 10 = 0
                  /\ got.page = PageOf(m) + 1
                  /\ n > 1 => ReadMeta(sources[n - 1].meta).score >= got.score

\* two retained matches whose scores have a third decimal, parsed back
C3_Witness ==
    /\ rpc = "parsed"
    /\ NoDashesInTexts
    /\ Len(Kept(matches)) >= 2
    /\ Len(matches) > Len(Kept(matches))
    /\ \E n \in 1 .. Len(matches) : HasText(matches[n]) /\ matches[n].score % 10 # 0
    /\ \E n \in 1 .. Len(matches) : HasText(matches[n]) /\ Contains(matches[n].metadata.text, <<"]">>)

\* C12: the number of matches asked of the store defaults to RETRIEVAL_K and
\* can be overridden on every call of retrieve_context: when the caller
\* passes a positive k, the store is queried with top_k = k and the output
\* has at most k segments.
C12_KOverridable ==
    Answered =>
       /\ requested_k = 0 => query_top_k = RETRIEVAL_K
       /\ requested_k > 0 =>
             /\ query_top_k = requested_k
             /\ Len(Split(output, SEPARATOR)) <= requested_k

----------------------------------------------------------------------------
(* Properties of load_and_split_pdf.                                       *)

\* the chunks of the n-th page, in order
PageChunks(n) == SelectSeq(pdf, LAMBDA c : c.metadata.page = n - 1)

\* the characters of its page a chunk covers, 0-based
Covered(c) ==
    c.metadata.start_index .. (c.metadata.start_index + Len(c.page_content) - 1)

\* how many characters chunk b shares with the chunk a before it
Shared(a, b) == Cardinality(Covered(a) \cap Covered(b))

NoWhitespace(text) == \A k \in 1 .. Len(text) : ~IsSpace(text[k])

\* each chunk carries the page and the source of the page it came from
CarriesPageAndSource(c) ==
    /\ c.metadata.page \in 0 .. (Len(docs) - 1)
    /\ c.metadata.source = docs[c.metadata.page + 1].metadata.source

\* C11: two pages of 1200 characters, split with chunk size 600 and overlap
\* 50, give 2 chunks per page, 4 in all: every chunk has at most 600
\* characters, the second chunk of a page shares 50 characters with the
\* first, the chunks of a page cover all 1200 of its characters, and each
\* chunk carries the page and the source of its page.
C11_TwoChunksPerDocument ==
    (/\ Len(docs) = 2
     /\ \A n \in 1 .. 2 : Len(docs[n].page_content) = 1200
     /\ pdf # <<>>)
    => /\ Len(pdf) = 4
       /\ \A n \in 1 .. 2 :
             LET cs == PageChunks(n)
             IN  /\ Len(cs) = 2
                 /\ \A j \in 1 .. 2 : Len(cs[j].page_content) <= 600
                 /\ Shared(cs[1], cs[2]) = 50
                 /\ Covered(cs[1]) \cup Covered(cs[2]) = 0 .. 1199
       /\ \A j \in 1 .. Len(pdf) : CarriesPageAndSource(pdf[j])

\* the number of chunks a text of len characters without whitespace gives:
\* the first chunk takes CHUNK_SIZE characters, each later one
\* CHUNK_SIZE - CHUNK_OVERLAP more
WindowCount(len) ==
    IF len <= CHUNK_SIZE THEN 1
    ELSE 1 + ((len - CHUNK_SIZE) + (CHUNK_SIZE - CHUNK_OVERLAP - 1))
                 \div (CHUNK_SIZE - CHUNK_OVERLAP)

\* C11, amended: every chunk has 1 to 600 characters, stands in its page at
\* its start_index, carries the page and the source of that page, and shares
\* at most 50 characters with the chunk before it; the chunks come in page
\* order.  A page without whitespace is cut into windows that start every
\* 550 characters, share exactly 50 characters with their neighbour and
\* cover the page: 3 chunks for 1200 characters (600, 600 and 100 long), 6
\* chunks for two such pages.
C11_WindowsOfPages ==
    pdf # <<>> =>
       /\ \A j \in 1 .. Len(pdf) :
             LET c == pdf[j]
                 len == Len(c.page_content)
             IN  /\ len \in 1 .. CHUNK_SIZE
                 /\ CarriesPageAndSource(c)
                 /\ c.metadata.start_index >= 0
                 /\ c.metadata.start_index + len
                        <= Len(docs[c.metadata.page + 1].page_content)
                 /\ SubSeq(docs[c.metadata.page + 1].page_content,
                           c.metadata.start_index + 1,
                           c.metadata.start_index + len) = c.page_content
       /\ \A j \in 1 .. (Len(pdf) - 1) :
             /\ pdf[j].metadata.page <= pdf[j + 1].metadata.page
             /\ pdf[j].metadata.page = pdf[j + 1].metadata.page
                   => Shared(pdf[j], pdf[j + 1]) <= CHUNK_OVERLAP
       /\ \A n \in 1 .. Len(docs) :
             LET text == docs[n].page_content
                 cs == PageChunks(n)
             IN  (text # <<>> /\ NoWhitespace(text)) =>
                    /\ Len(cs) = WindowCount(Len(text))
                    /\ \A j \in 1 .. Len(cs) :
                          /\ cs[j].metadata.start_index
                                = (j - 1) * (CHUNK_SIZE - CHUNK_OVERLAP)
                          /\ j < Len(cs) =>
                                /\ Len(cs[j].page_content) = CHUNK_SIZE
                                /\ Shared(cs[j], cs[j + 1]) = CHUNK_OVERLAP
                          /\ j = Len(cs) =>
                                cs[j].metadata.start_index + Len(cs[j].page_content)
                                   = Len(text)

\* two pages of 1200 letters have been split into 6 chunks
C11_Witness ==
    /\ Len(docs) = 2
    /\ \A n \in 1 .. 2 :
          Len(docs[n].page_content) = 1200 /\ NoWhitespace(docs[n].page_content)
    /\ Len(pdf) = 6
    /\ Len(PageChunks(1)) = 3
    /\ Len(PageChunks(2)) = 3

----------------------------------------------------------------------------
(* Properties of the ingestion script.                                     *)

Written == Len(run.upserted)

\* C4: when embed_batch or upsert raises, the run reports the number of
\* records written before the failure: its outcome carries that count, or
\* the last line it printed shows it.
C4_FailureReportsWritten ==
    ipc = "raised" =>
        \/ outcome.kind = "report" /\ Get(outcome, "count", -1) = Written
        \/ stdout # <<>> /\ stdout[Len(stdout)].done = Written

\* C6 as stated: a second completed run over the same chunks leaves more
\* records in the index than the first run left.
C6_SecondRunDuplicates ==
    (ipc = "done" /\ Len(snapshots) = 2 /\ chunks # <<>>) =>
        Cardinality(DOMAIN snapshots[2]) > Cardinality(DOMAIN snapshots[1])

\* C6 as amended: a second completed run over the same chunks leaves the
\* index with exactly the ids and metadata the first run left: every
\* record doc_n of the second run replaces the first run's doc_n.
C6_SecondRunOverwrites ==
    (ipc = "done" /\ Len(snapshots) >= 2 /\ chunks # <<>>) =>
        LET first == snapshots[Len(snapshots) - 1]
            second == snapshots[Len(snapshots)]
        IN  /\ DOMAIN second = DOMAIN first
            /\ Cardinality(DOMAIN second) = Cardinality(DOMAIN first)
            /\ \A id \in DOMAIN second : second[id].metadata = first[id].metadata

\* two completed runs over more than one batch
C6_Witness ==
    /\ ipc = "done"
    /\ Len(snapshots) = 2
    /\ Len(chunks) > batch_size
    /\ Cardinality(DOMAIN store) >= Len(chunks)

DOC_PREFIX == <<"d", "o", "c", "_">>

\* id is doc_<n>
IsDocId(id, n) ==
    /\ Len(id) > Len(DOC_PREFIX)
    /\ SubSeq(id, 1, Len(DOC_PREFIX)) = DOC_PREFIX
    /\ IsNumeral(SubSeq(id, Len(DOC_PREFIX) + 1, Len(id)))
    /\ NumeralValue(SubSeq(id, Len(DOC_PREFIX) + 1, Len(id))) = n

\* C8: a run of index_documents in which no remote call failed has
\* upserted exactly one record per chunk; the n-th chunk (from 0) went
\* under the id doc_n, the ids differ pairwise, and the index holds under
\* doc_n the chunk's text, page and source with the passage vector of its
\* text.
C8_EachChunkOnceUnderItsId ==
    ipc = "done" =>
        /\ Len(run.upserted) = Len(chunks)
        /\ \A m, n \in 1 .. Len(run.upserted) : m # n => run.upserted[m] # run.upserted[n]
        /\ \A n \in 1 .. Len(chunks) :
              LET id == run.upserted[n]
                  md == chunks[n].metadata
              IN  /\ IsDocId(id, n - 1)
                  /\ id \in DOMAIN store
                  /\ store[id].metadata.text = chunks[n].page_content
                  /\ store[id].metadata.page = (IF "page" \in DOMAIN md THEN md.page ELSE 0)
                  /\ store[id].metadata.source = (IF "source" \in DOMAIN md THEN md.source ELSE "")
                  /\ store[id].values.of = chunks[n].page_content
                  /\ store[id].values.input_type = "passage"

\* a completed run whose last batch is shorter than the batch size
C8_Witness ==
    /\ ipc = "done"
    /\ Len(chunks) > 2 * batch_size
    /\ Len(chunks) % batch_size # 0

\* the ids this run has upserted
WrittenIds == {run.upserted[n] : n \in 1 .. Written}

\* C13: at every point of a run of index_documents, also after a failed
\* embedding or upsert call, the records the run has written are those of a
\* prefix of whole batches in ingestion order: doc_0 .. doc_(m-1) with m a
\* multiple of the batch size or the number of chunks, each holding its
\* chunk, and nothing else in the index has changed.  While the loop runs m
\* follows the loop variable; a failure in the batch that starts at i leaves
\* exactly the i records of the batches before it, and no call of a later
\* batch is made after it.
C13_PrefixOfWholeBatches ==
    /\ Written <= Len(chunks)
    /\ Written % batch_size = 0 \/ Written = Len(chunks)
    /\ \A n \in 1 .. Written :
          /\ IsDocId(run.upserted[n], n - 1)
          /\ run.upserted[n] \in DOMAIN store
          /\ store[run.upserted[n]].metadata.text = chunks[n].page_content
          /\ store[run.upserted[n]].values.of = chunks[n].page_content
    /\ DOMAIN store = DOMAIN run.startStore \cup WrittenIds
    /\ \A id \in DOMAIN run.startStore \ WrittenIds : store[id] = run.startStore[id]
    /\ ipc = "indexing" => Written = (IF i < Len(chunks) THEN i ELSE Len(chunks))
    /\ ipc = "raised" =>
          /\ i < Len(chunks)
          /\ Written = i
          /\ run.calls \in {2 * (i \div batch_size) + 1, 2 * (i \div batch_size) + 2}

\* a run that failed in its second or a later batch, with chunks still to go
\* after the failed batch
C13_Witness ==
    /\ ipc = "raised"
    /\ i >= batch_size
    /\ Written = i
    /\ Len(chunks) > i + batch_size

Yes == {<<"y">>, <<"Y">>}

\* C9: the script sends no embedding request and no upsert, and the index
\* does not change, unless the operator was prompted and answered y or Y;
\* after any other answer the run is over with the index as it was.
C9_NothingWrittenBeforeYes ==
    /\ (run.calls > 0 \/ store # run.startStore \/ ipc = "indexing")
          => (run.prompted /\ confirm \in Yes)
    /\ ipc = "cancelled"
          => (run.prompted /\ confirm \notin Yes /\ run.calls = 0 /\ store = run.startStore)
    /\ ipc \in {"start", "prompt"} => (run.calls = 0 /\ store = run.startStore)

\* the operator answered with a capital Y, and a batch was written
C9_Witness ==
    /\ confirm = <<"Y">>
    /\ run.calls > 0
    /\ store # run.startStore

\* C7: every embedding request of the ingestion asks for "passage", every
\* embedding request of a query asks for "query", all name one model, and
\* every vector in the index has the dimension of the query vector.
C7_IntentAndDimension ==
    /\ \A e \in embedLog :
          /\ e.path = "ingest" => e.parameters.input_type = "passage"
          /\ e.path = "query" => e.parameters.input_type = "query"
    /\ \A e, g \in embedLog : e.model = g.model
    /\ query_embedding # NoVector =>
          /\ query_embedding.input_type = "query"
          /\ \A id \in DOMAIN store :
                /\ store[id].values.input_type = "passage"
                /\ store[id].values.dim = query_embedding.dim

\* the index holds a chunk the script wrote and a query found it
C7_Witness ==
    /\ rpc = "returned"
    /\ Len(matches) = 1
    /\ DOMAIN store # {}
    /\ \E e, g \in embedLog : e.path = "ingest" /\ g.path = "query"

----------------------------------------------------------------------------
(* Properties of evaluate_response.                                        *)

\* C5: evaluate_response never raises; whenever a call into the evaluation
\* library fails, it returns a mapping with an error field in which
\* faithfulness and answer_relevancy are None.
C5_NeverRaises ==
    /\ epc # "raised"
    /\ failed # "none" =>
          /\ epc = "returned"
          /\ {"error", "faithfulness", "answer_relevancy"} \subseteq DOMAIN scores
          /\ scores.faithfulness = None
          /\ scores.answer_relevancy = None

IsNumber(x) == x.type \in {"float", "int"} /\ ~x.nan

\* C10: on the success path every value of the returned mapping is a
\* number or None.
C10_OnlyNumbersOrNone ==
    (epc = "returned" /\ failed = "none") =>
        \A key \in DOMAIN scores : IsNumber(scores[key]) \/ scores[key] = None

----------------------------------------------------------------------------
(* Properties of the chat tab.                                             *)

\* C14: whatever the user does (type, click an example, clear the chat,
\* rerun), every user message in the session's message list, typed or added
\* by an example button, has had the agent invoked for it, and is followed
\* in the list by the assistant's answer to it unless the agent gave none
\* (in which case an error was displayed).
C14_EveryUserMessageReachesAgent ==
    \A n \in 1 .. Len(messages) :
        messages[n].role = "user" =>
           /\ n \in invoked
           /\ (n < Len(messages) /\ messages[n + 1].role = "assistant")
                 => messages[n + 1].question = messages[n].content

====
